---- MODULE Spec2Model ----
(***************************************************************************)
(* turso-migrate: the migration engine (internal/migration/engine.go) and  *)
(* the ledger store (internal/storage/turso.go).                           *)
(*                                                                         *)
(* Strings are sequences of byte values, compared bytewise as Go and       *)
(* SQLite (BINARY collation) compare them.  An engine invocation is a      *)
(* process whose steps are the calls it makes to the store and to the      *)
(* file system; each such call is one atomic step.                         *)
(***************************************************************************)
EXTENDS Integers, Sequences, FiniteSets, TLC

\* ------------------------------------------------------------------ bounds
\* versions on disk are Sprintf03(1) .. Sprintf03(MaxVersion)
MaxVersion == 2
\* at most this many migration files are on disk at once
MaxFiles == 2
\* behaviours of at most this many engine invocations are explored
MaxInvocations == 3

\* ------------------------------------------------------------------ strings
\* "%03d": width, and the byte of digit 0
PadWidth == 3
Zero == 48

RECURSIVE Itoa(_)
Itoa(n) == IF n < 10 THEN <<Zero + n>> ELSE Append(Itoa(n \div 10), Zero + (n % 10))

RECURSIVE PadLeft(_, _)
PadLeft(s, w) == IF Len(s) >= w THEN s ELSE PadLeft(<<Zero>> \o s, w)

\* fmt.Sprintf("%03d", n): pads, never truncates
Sprintf03(n) == PadLeft(Itoa(n), PadWidth)

\* Go's s < t on strings (bytewise, a proper prefix is smaller)
RECURSIVE StrLess(_, _)
StrLess(s, t) ==
    IF t = <<>> THEN FALSE
    ELSE IF s = <<>> THEN TRUE
    ELSE IF Head(s) # Head(t) THEN Head(s) < Head(t)
    ELSE StrLess(Tail(s), Tail(t))

Front(s) == SubSeq(s, 1, Len(s) - 1)
Last(s) == s[Len(s)]

\* ------------------------------------------------------------------ files
Versions == {Sprintf03(n) : n \in 1..MaxVersion}
\* a parsed SQL body: empty, or some SQL text ("SQL")
EmptySQL == <<>>
SomeSQL == <<83, 81, 76>>
\* names of migrations, as the file name carries them: <version>_a.sql has both
\* sections filled in, <version>_b.sql has nothing under its DOWN marker
NameA == <<97>>
NameB == <<98>>
Names == {NameA, NameB}

\* type MigrationFile (Path is Version "_" Name ".sql" under the directory)
MigrationFile ==
    {[Version |-> v, Name |-> n, UpSQL |-> SomeSQL,
      DownSQL |-> IF n = NameA THEN SomeSQL ELSE EmptySQL] : v \in Versions, n \in Names}

Path(f) == f.Version \o <<95>> \o f.Name \o <<46, 115, 113, 108>>

\* the bytes '9', '_' and the suffix ".sql"
Nine == 57
Underscore == 95
SqlSuffix == <<46, 115, 113, 108>>

IsDigit(b) == Zero <= b /\ b <= Nine

\* strings.HasSuffix
HasSuffix(s, suffix) ==
    Len(s) >= Len(suffix) /\ SubSeq(s, Len(s) - Len(suffix) + 1, Len(s)) = suffix

\* the length of the longest prefix of s made of digits: what (\d+) takes,
\* the byte after it having to be '_'
RECURSIVE Digits(_)
Digits(s) == IF s # <<>> /\ IsDigit(Head(s)) THEN 1 + Digits(Tail(s)) ELSE 0

\* (variant) a parser that accepts every file name
parseAnyName(filename) ==
    [ok |-> TRUE, Version |-> SubSeq(filename, 1, Digits(filename)), Name |-> <<>>]

\* parseMigrationFile on the base name of a path: ^(\d+)_(.+)\.sql$ and its
\* two submatches; ok is FALSE for "invalid migration filename format"
parseMigrationFile(filename) ==
    LET d == Digits(filename)
        n == Len(filename)
    IN  IF /\ d >= 1
           /\ n >= d + 1 + 1 + Len(SqlSuffix)
           /\ filename[d + 1] = Underscore
           /\ HasSuffix(filename, SqlSuffix)
        THEN [ok |-> TRUE, Version |-> SubSeq(filename, 1, d),
              Name |-> SubSeq(filename, d + 2, n - Len(SqlSuffix))]
        ELSE [ok |-> FALSE, Version |-> <<>>, Name |-> <<>>]

\* the MigrationFile parseMigrationFile returns for the file f of the directory:
\* Version and Name from the file name, the bodies from the content
Parsed(f) ==
    [Version |-> parseMigrationFile(Path(f)).Version,
     Name |-> parseMigrationFile(Path(f)).Name,
     UpSQL |-> f.UpSQL, DownSQL |-> f.DownSQL]

\* filepath.WalkDir visits the entries in lexical order of their names
RECURSIVE WalkDir(_)
WalkDir(dir) ==
    IF dir = {} THEN <<>>
    ELSE LET f == CHOOSE x \in dir : \A y \in dir \ {x} : StrLess(Path(x), Path(y))
         IN  <<Parsed(f)>> \o WalkDir(dir \ {f})

\* sort.Slice(files, Version <): for these lengths an insertion sort, which
\* moves an element left only past elements with a strictly greater key
VersionLess(a, b) == StrLess(a.Version, b.Version)

\* (variant) a sort into a list keyed by version: a second element of a
\* version already in the list is dropped
RECURSIVE InsertSortedUnique(_, _)
InsertSortedUnique(s, f) ==
    IF s = <<>> THEN <<f>>
    ELSE IF Last(s).Version = f.Version THEN s
    ELSE IF VersionLess(f, Last(s)) THEN Append(InsertSortedUnique(Front(s), f), Last(s))
    ELSE Append(s, f)

RECURSIVE InsertSorted(_, _)
InsertSorted(s, f) ==
    IF s = <<>> THEN <<f>>
    ELSE IF VersionLess(f, Last(s)) THEN Append(InsertSorted(Front(s), f), Last(s))
    ELSE Append(s, f)

RECURSIVE SortSlice(_)
SortSlice(s) == IF s = <<>> THEN <<>> ELSE InsertSorted(SortSlice(Front(s)), Last(s))

\* Engine.loadMigrationFiles on a directory of conforming, readable files
loadMigrationFiles(dir) == SortSlice(WalkDir(dir))

\* the error of loadMigrationFiles.  The root is missing: WalkDir hands the
\* Lstat error to the callback, which returns it.  A file with the suffix
\* .sql whose name parseMigrationFile rejects: the callback returns "failed to
\* parse", WalkDir stops, and nil, err is returned: no list.  Files without the
\* suffix are skipped.
ErrNone == "nil"
ErrNotExist == "no such file or directory"
ErrParse == "failed to parse"
\* (variant) loadMigrationFiles taking a missing root for an empty directory
loadErrorMissingIsEmpty(exists, names) ==
    IF \E n \in names : HasSuffix(n, SqlSuffix) /\ ~parseMigrationFile(n).ok THEN ErrParse
    ELSE ErrNone

loadError(exists, names) ==
    IF ~exists THEN ErrNotExist
    ELSE IF \E n \in names : HasSuffix(n, SqlSuffix) /\ ~parseMigrationFile(n).ok THEN ErrParse
    ELSE ErrNone

\* ------------------------------------------------------------------ Create
\* strconv.Atoi on a string of digits (within the range of int)
RECURSIVE Atoi(_)
Atoi(s) == IF s = <<>> THEN 0 ELSE 10 * Atoi(Front(s)) + (Last(s) - Zero)

\* (variant) getNextVersion taking the greatest number, not the last of the list
RECURSIVE NumericMax(_)
NumericMax(fs) ==
    IF fs = <<>> THEN 0
    ELSE IF Atoi(Last(fs).Version) > NumericMax(Front(fs)) THEN Atoi(Last(fs).Version)
    ELSE NumericMax(Front(fs))

getNextVersionNumeric(err, fs) ==
    IF err = ErrNotExist THEN [err |-> ErrNone, version |-> Sprintf03(1)]
    ELSE IF err # ErrNone THEN [err |-> err, version |-> <<>>]
    ELSE [err |-> ErrNone, version |-> Sprintf03(NumericMax(fs) + 1)]

\* getNextVersion, from the error and the list of loadMigrationFiles: "001" when
\* the directory does not exist or holds no migration, else the number of the
\* last file of the list plus one
getNextVersion(err, fs) ==
    IF err = ErrNotExist THEN [err |-> ErrNone, version |-> Sprintf03(1)]
    ELSE IF err # ErrNone THEN [err |-> err, version |-> <<>>]
    ELSE IF Len(fs) = 0 THEN [err |-> ErrNone, version |-> Sprintf03(1)]
    ELSE [err |-> ErrNone, version |-> Sprintf03(Atoi(Last(fs).Version) + 1)]

\* sanitizeName: every byte outside [a-zA-Z0-9_] becomes '_', runs of '_'
\* become one '_', and '_' is trimmed from both ends
IsWord(b) ==
    \/ IsDigit(b)
    \/ 65 <= b /\ b <= 90
    \/ 97 <= b /\ b <= 122
    \/ b = Underscore

RECURSIVE ReplaceSpecial(_)
ReplaceSpecial(s) ==
    IF s = <<>> THEN <<>>
    ELSE <<IF IsWord(Head(s)) THEN Head(s) ELSE Underscore>> \o ReplaceSpecial(Tail(s))

\* (variant) sanitizeName without its second replacement
CollapseNone(s) == s

RECURSIVE Collapse(_)
Collapse(s) ==
    IF Len(s) < 2 THEN s
    ELSE IF s[1] = Underscore /\ s[2] = Underscore THEN Collapse(Tail(s))
    ELSE <<Head(s)>> \o Collapse(Tail(s))

RECURSIVE TrimLeft(_)
TrimLeft(s) == IF s # <<>> /\ Head(s) = Underscore THEN TrimLeft(Tail(s)) ELSE s

RECURSIVE TrimRight(_)
TrimRight(s) == IF s # <<>> /\ Last(s) = Underscore THEN TrimRight(Front(s)) ELSE s

sanitizeName(name) == TrimRight(TrimLeft(Collapse(ReplaceSpecial(name))))

\* the file name Create writes to
CreateFilename(version, name) == version \o <<Underscore>> \o sanitizeName(name) \o SqlSuffix

\* ------------------------------------------------------------------ parseSQL
\* the tokens "==== UP ====" and "==== DOWN ===="
UpToken == <<61, 61, 61, 61, 32, 85, 80, 32, 61, 61, 61, 61>>
DownToken == <<61, 61, 61, 61, 32, 68, 79, 87, 78, 32, 61, 61, 61, 61>>

NewLine == 10
Return13 == 13
\* in a string, one element that stands for a run of bufio.MaxScanTokenSize
\* (64 KiB) bytes, none of them white space or part of a token
LongRun == 65536

\* unicode.IsSpace, on bytes
IsSpace(b) == b \in {9, 10, 11, 12, 13, 32}

\* strings.TrimSpace
RECURSIVE TrimSpaceLeft(_)
TrimSpaceLeft(s) == IF s # <<>> /\ IsSpace(Head(s)) THEN TrimSpaceLeft(Tail(s)) ELSE s

RECURSIVE TrimSpaceRight(_)
TrimSpaceRight(s) == IF s # <<>> /\ IsSpace(Last(s)) THEN TrimSpaceRight(Front(s)) ELSE s

TrimSpace(s) == TrimSpaceRight(TrimSpaceLeft(s))

\* strings.Contains
Contains(s, substr) ==
    \E i \in 0..(Len(s) - Len(substr)) : SubSeq(s, i + 1, i + Len(substr)) = substr

\* strings.Join(lines, "\n")
RECURSIVE Join(_)
Join(lines) ==
    IF lines = <<>> THEN <<>>
    ELSE IF Len(lines) = 1 THEN lines[1]
    ELSE Head(lines) \o <<NewLine>> \o Join(Tail(lines))

\* bufio.ScanLines over the whole text: the lines without their end-of-line
\* marker ("\n", or "\r\n"); the last line need not have one
DropCR(line) == IF line # <<>> /\ Last(line) = Return13 THEN Front(line) ELSE line

FirstNewLine(data) == CHOOSE i \in 1..Len(data) : data[i] = NewLine /\ \A j \in 1..(i - 1) : data[j] # NewLine

RECURSIVE ScanLines(_)
ScanLines(data) ==
    IF data = <<>> THEN <<>>
    ELSE IF \E i \in 1..Len(data) : data[i] = NewLine
         THEN <<DropCR(SubSeq(data, 1, FirstNewLine(data) - 1))>>
              \o ScanLines(SubSeq(data, FirstNewLine(data) + 1, Len(data)))
         ELSE <<DropCR(data)>>

\* scanner.Scan with the default buffer: at a line of MaxScanTokenSize bytes or
\* more Scan returns false (bufio.ErrTooLong), and the loop of parseSQL ends
\* as at the end of the text: parseSQL does not look at scanner.Err()
RECURSIVE Scan(_)
Scan(lines) ==
    IF lines = <<>> THEN <<>>
    ELSE IF \E i \in 1..Len(Head(lines)) : Head(lines)[i] = LongRun THEN <<>>
    ELSE <<Head(lines)>> \o Scan(Tail(lines))

\* the loop of parseSQL: the lines appended to upLines (section "up") or to
\* downLines (section "down"), from currentSection on
RECURSIVE Collect(_, _, _)
Collect(lines, currentSection, section) ==
    IF lines = <<>> THEN <<>>
    ELSE IF Contains(TrimSpace(Head(lines)), UpToken)
         THEN Collect(Tail(lines), "up", section)
    ELSE IF Contains(TrimSpace(Head(lines)), DownToken)
         THEN Collect(Tail(lines), "down", section)
    ELSE (IF currentSection = section THEN <<Head(lines)>> ELSE <<>>)
         \o Collect(Tail(lines), currentSection, section)

\* parseSQL: upSQL, downSQL
parseSQL(content) ==
    <<TrimSpace(Join(Collect(Scan(ScanLines(content)), "", "up"))),
      TrimSpace(Join(Collect(Scan(ScanLines(content)), "", "down")))>>

\* ------------------------------------------------------------------ state
Procs == {1}

VARIABLES
    disk,           \* the migrations directory: a set of MigrationFile, one per path
    junk,           \* the migrations directory: the names of its other files
    dirExists,      \* the migrations directory exists
    ledger,         \* table schema_migrations: rows in insertion order
    schema,         \* per version: forward commits minus backward commits of its bodies
    pc,             \* per invocation: where it stands
    op,             \* per invocation: "Up" or "Down" ("none" before the first)
    files,          \* Up/Down: files
    appliedSet,     \* Up: appliedSet
    idx,            \* Up: position of the range loop in files
    appliedCount,   \* Up: appliedCount
    lastMigration,  \* Down: lastMigration
    migrationFile,  \* Down: *migrationFile
    result,         \* the invocation's return value
    stdout,         \* the lines the invocation has printed
    calls,          \* history: the store calls and file writes of this invocation, in order
    ledger0,        \* history: the ledger when this invocation started
    schema0,        \* history: the database when this invocation started
    diskSame,       \* history: the directory is as it was when this invocation started
    prev,           \* history: what the invocation before did (see Summary)
    invocations,    \* history: the number of invocations started so far
    arg,            \* a function of the engine called by itself: its argument
    ret             \* and the values it returned, <<>> before it is called

vars == <<disk, junk, dirExists, ledger, schema, pc, op, files, appliedSet, idx, appliedCount,
          lastMigration, migrationFile, result, stdout, calls, ledger0, schema0, diskSame, prev,
          invocations, arg, ret>>

\* the names of the files of the directory
DirNames == {Path(f) : f \in disk} \cup junk

\* ------------------------------------------------------------------ store
\* type Migration, without AppliedAt: the position in ledger is the insertion order
Row(version, name) == [Version |-> version, Name |-> name]

LedgerVersions(l) == {l[i].Version : i \in 1..Len(l)}

\* (mutant) GetAppliedMigrations without ORDER BY: the rows in insertion order
GetAppliedUnordered(l) == l

\* GetAppliedMigrations: SELECT ... ORDER BY version ASC
GetAppliedMigrations(l) == SortSlice(l)

\* (variant) a table without the PRIMARY KEY
RecordAlways(l, version) == TRUE

\* RecordMigration: INSERT; version is the PRIMARY KEY
RecordOK(l, version) == version \notin LedgerVersions(l)
\* (mutant) RecordMigration whose INSERT is lost
RecordMigrationLost(l, version, name) == l

RecordMigration(l, version, name) == Append(l, Row(version, name))

\* (mutant) RemoveMigration whose DELETE is lost
RemoveMigrationLost(l, version) == l

\* (mutant) RemoveMigration with the WHERE condition inverted
RemoveMigrationOthers(l, version) == SelectSeq(l, LAMBDA r : r.Version = version)

\* RemoveMigration: DELETE ... WHERE version = ?
RemoveMigration(l, version) == SelectSeq(l, LAMBDA r : r.Version # version)

\* (variant) GetCurrentVersion with ORDER BY version ASC
RECURSIVE BottomRow(_)
BottomRow(l) ==
    IF Len(l) = 1 THEN l[1]
    ELSE IF StrLess(BottomRow(Tail(l)).Version, Head(l).Version) THEN BottomRow(Tail(l))
    ELSE Head(l)

GetCurrentVersionAscending(l) == IF l = <<>> THEN <<>> ELSE BottomRow(l).Version

\* (variant) GetCurrentVersion that finds no row
GetCurrentVersionNone(l) == <<>>

\* the first row of ORDER BY version DESC, of a table with at least one row
RECURSIVE TopRow(_)
TopRow(l) ==
    IF Len(l) = 1 THEN l[1]
    ELSE IF StrLess(Head(l).Version, TopRow(Tail(l)).Version) THEN TopRow(Tail(l))
    ELSE Head(l)

\* GetCurrentVersion: ORDER BY version DESC LIMIT 1, "" when there is no row
GetCurrentVersion(l) == IF l = <<>> THEN <<>> ELSE TopRow(l).Version

\* (mutant) ExecuteSQL without the deferred Rollback: a failed body stays
ExecuteSQLNoRollback(s, f, dir, ok) ==
    [s EXCEPT ![f.Version] = @ + (IF dir = "up" THEN 1 ELSE -1)]

\* (variant) ExecuteSQL that returns without committing
ExecuteSQLUncommitted(s, f, dir, ok) == s

\* (variant) ExecuteSQL of bodies that are idempotent: a forward body that is
\* already in the database changes nothing
ExecuteSQLIdempotent(s, f, dir, ok) ==
    IF ok /\ ~(dir = "up" /\ s[f.Version] >= 1)
    THEN [s EXCEPT ![f.Version] = @ + (IF dir = "up" THEN 1 ELSE -1)] ELSE s

\* ExecuteSQL: Begin, Exec, Commit.  Committed (ok), the body of f changes the
\* database, a forward body adding what a backward body takes away; when Exec
\* or Commit fails the deferred Rollback leaves the database as it was.
ExecuteSQL(s, f, dir, ok) ==
    IF ok THEN [s EXCEPT ![f.Version] = @ + (IF dir = "up" THEN 1 ELSE -1)] ELSE s

\* ------------------------------------------------------------------ results
Nil == [err |-> "nil", version |-> <<>>]
Running == [err |-> "running", version |-> <<>>]
Crashed == [err |-> "crashed", version |-> <<>>]
Errorf(msg, version) == [err |-> msg, version |-> version]
NoRow == [Version |-> <<>>, Name |-> <<>>]
NoFile == [Version |-> <<>>, Name |-> <<>>, UpSQL |-> <<>>, DownSQL |-> <<>>]

Call(name, f, ok) == [call |-> name, Version |-> f.Version, Name |-> f.Name, ok |-> ok]

NoCall == [call |-> "none", Version |-> <<>>, Name |-> <<>>, ok |-> TRUE]

\* what is kept of an invocation once the next one has started
Summary(o, r, cs, l0, same) ==
    [op |-> o, result |-> r.err, diskSame |-> same,
     versions0 |-> LedgerVersions(l0),
     recorded |-> {cs[i].Version : i \in {j \in 1..Len(cs) :
                                             cs[j].call = "RecordMigration" /\ cs[j].ok}},
     last |-> IF cs = <<>> THEN NoCall ELSE cs[Len(cs)]]

NoInvocation == Summary("none", Nil, <<>>, <<>>, TRUE)

\* a printed line: the text, and what its verbs were given
Line(msg, a, b) == [msg |-> msg, a |-> a, b |-> b]

\* no invocation has started: the processes ps, the database s
NoneStarted(ps, s) ==
    /\ stdout = [p \in ps |-> <<>>]
    /\ pc = [p \in ps |-> "idle"]
    /\ op = [p \in ps |-> "none"]
    /\ files = [p \in ps |-> <<>>]
    /\ appliedSet = [p \in ps |-> {}]
    /\ idx = [p \in ps |-> 0]
    /\ appliedCount = [p \in ps |-> 0]
    /\ lastMigration = [p \in ps |-> NoRow]
    /\ migrationFile = [p \in ps |-> NoFile]
    /\ result = [p \in ps |-> Nil]
    /\ calls = [p \in ps |-> <<>>]
    /\ ledger0 = [p \in ps |-> <<>>]
    /\ schema0 = [p \in ps |-> s]
    /\ diskSame = [p \in ps |-> TRUE]
    /\ prev = [p \in ps |-> NoInvocation]
    /\ invocations = 0

\* no function is called by itself
NoFunction == arg = <<>> /\ ret = <<>>

\* a new database (InitSchema has created the empty table) and an empty directory
Init ==
    /\ disk = {}
    /\ junk = {}
    /\ dirExists = TRUE
    /\ ledger = <<>>
    /\ schema = [v \in Versions |-> 0]
    /\ NoneStarted(Procs, schema)
    /\ NoFunction

\* ------------------------------------------------------------------ steps
\* an invocation starts: the history of the one before moves to prev
Begin(p, o) ==
    /\ pc[p] = "idle"
    /\ invocations < MaxInvocations
    /\ invocations' = invocations + 1
    /\ op' = [op EXCEPT ![p] = o]
    /\ ledger0' = [ledger0 EXCEPT ![p] = ledger]
    /\ schema0' = [schema0 EXCEPT ![p] = schema]
    /\ diskSame' = [diskSame EXCEPT ![p] = TRUE]
    /\ prev' = [prev EXCEPT ![p] =
                    Summary(op[p], result[p], calls[p], ledger0[p], diskSame[p])]
    /\ appliedCount' = [appliedCount EXCEPT ![p] = 0]

\* the invocation returns r; its locals go out of scope
Return(p, r) ==
    /\ pc' = [pc EXCEPT ![p] = "idle"]
    /\ result' = [result EXCEPT ![p] = r]
    /\ files' = [files EXCEPT ![p] = <<>>]
    /\ appliedSet' = [appliedSet EXCEPT ![p] = {}]
    /\ idx' = [idx EXCEPT ![p] = 0]
    /\ lastMigration' = [lastMigration EXCEPT ![p] = NoRow]
    /\ migrationFile' = [migrationFile EXCEPT ![p] = NoFile]

\* history: the calls made in the first step of an invocation, and a later call
Called(p, cs) == calls' = [calls EXCEPT ![p] = cs]
Logged(p, c) == calls' = [calls EXCEPT ![p] = Append(@, c)]

\* fmt.Println / fmt.Printf: in the first step of an invocation, and later
Started(p, lines) == stdout' = [stdout EXCEPT ![p] = lines]
Println(p, l) == stdout' = [stdout EXCEPT ![p] = Append(@, l)]

\* (mutant) the range loop of Up without its skip of applied versions
NextPendingNoSkip(fs, set, i) == i

\* the range loop of Up: the first position from i on whose version is not in
\* the set, Len + 1 when the loop runs out
RECURSIVE NextPending(_, _, _)
NextPending(fs, set, i) ==
    IF i > Len(fs) THEN i
    ELSE IF fs[i].Version \in set THEN NextPending(fs, set, i + 1)
    ELSE i

\* Up, lines 80-89: loadMigrationFiles
UpLoad(p) ==
    /\ Begin(p, "Up")
    /\ Called(p, <<>>)
    /\ UNCHANGED <<arg, ret, disk, junk, dirExists, ledger, schema>>
    /\ \/ /\ Started(p, <<>>)
          /\ Return(p, Errorf("failed to load migration files", <<>>))
       \/ /\ loadError(dirExists, DirNames) = ErrNone
          /\ loadMigrationFiles(disk) = <<>>
          /\ Started(p, <<Line("No migrations found", <<>>, <<>>)>>)
          /\ Return(p, Nil)
       \/ /\ loadError(dirExists, DirNames) = ErrNone
          /\ loadMigrationFiles(disk) # <<>>
          /\ Started(p, <<>>)
          /\ files' = [files EXCEPT ![p] = loadMigrationFiles(disk)]
          /\ pc' = [pc EXCEPT ![p] = "up_get"]
          /\ result' = [result EXCEPT ![p] = Running]
          /\ UNCHANGED <<appliedSet, idx, lastMigration, migrationFile>>

\* Up, lines 91-110: GetAppliedMigrations, appliedSet, the loop up to its first
\* pending file
UpGet(p) ==
    /\ pc[p] = "up_get"
    /\ UNCHANGED <<arg, ret, disk, junk, dirExists, ledger, schema, op, calls, ledger0, schema0, diskSame, prev, appliedCount, invocations>>
    /\ \/ /\ Return(p, Errorf("failed to get applied migrations", <<>>))
          /\ UNCHANGED stdout
       \/ LET applied == GetAppliedMigrations(ledger)
              set == {applied[i].Version : i \in 1..Len(applied)}
              i == NextPending(files[p], set, 1)
          IN  IF i > Len(files[p])
              THEN /\ Println(p, Line("No pending migrations", <<>>, <<>>))
                   /\ Return(p, Nil)
              ELSE /\ UNCHANGED stdout
                   /\ appliedSet' = [appliedSet EXCEPT ![p] = set]
                   /\ idx' = [idx EXCEPT ![p] = i]
                   /\ pc' = [pc EXCEPT ![p] = "up_exec"]
                   /\ UNCHANGED <<files, lastMigration, migrationFile, result>>

\* Up, lines 112-115: ExecuteSQL(file.UpSQL)
UpExecuteSQL(p) ==
    /\ pc[p] = "up_exec"
    /\ UNCHANGED <<arg, ret, disk, junk, dirExists, ledger, op, ledger0, schema0, diskSame, prev, appliedCount, invocations>>
    /\ Println(p, Line("Applying migration", files[p][idx[p]].Version, files[p][idx[p]].Name))
    /\ LET file == files[p][idx[p]]
       IN  \/ /\ schema' = ExecuteSQL(schema, file, "up", TRUE)
              /\ Logged(p, Call("ExecuteSQL", file, TRUE))
              /\ pc' = [pc EXCEPT ![p] = "up_record"]
              /\ UNCHANGED <<files, appliedSet, idx, lastMigration, migrationFile, result>>
           \/ /\ schema' = ExecuteSQL(schema, file, "up", FALSE)
              /\ Logged(p, Call("ExecuteSQL", file, FALSE))
              /\ Return(p, Errorf("failed to execute migration", file.Version))

\* Up, lines 117-131: RecordMigration, appliedCount++, the loop up to its next
\* pending file
UpRecordMigration(p) ==
    /\ pc[p] = "up_record"
    /\ UNCHANGED <<arg, ret, disk, junk, dirExists, schema, op, ledger0, schema0, diskSame, prev, invocations>>
    /\ LET file == files[p][idx[p]]
           i == NextPending(files[p], appliedSet[p], idx[p] + 1)
       IN  \/ /\ RecordOK(ledger, file.Version)
              /\ ledger' = RecordMigration(ledger, file.Version, file.Name)
              /\ Logged(p, Call("RecordMigration", file, TRUE))
              /\ appliedCount' = [appliedCount EXCEPT ![p] = @ + 1]
              /\ IF i > Len(files[p])
                 THEN /\ Println(p, Line("Applied migration(s)", Itoa(appliedCount[p] + 1), <<>>))
                      /\ Return(p, Nil)
                 ELSE /\ UNCHANGED stdout
                      /\ idx' = [idx EXCEPT ![p] = i]
                      /\ pc' = [pc EXCEPT ![p] = "up_exec"]
                      /\ UNCHANGED <<files, appliedSet, lastMigration, migrationFile, result>>
           \/ /\ Logged(p, Call("RecordMigration", file, FALSE))
              /\ Return(p, Errorf("failed to record migration", file.Version))
              /\ UNCHANGED <<ledger, appliedCount, stdout>>

\* Down, lines 136-148: GetAppliedMigrations, lastMigration
DownGet(p) ==
    /\ Begin(p, "Down")
    /\ Called(p, <<>>)
    /\ UNCHANGED <<arg, ret, disk, junk, dirExists, ledger, schema>>
    /\ \/ /\ Started(p, <<>>)
          /\ Return(p, Errorf("failed to get applied migrations", <<>>))
       \/ LET applied == GetAppliedMigrations(ledger)
          IN  IF Len(applied) = 0
              THEN /\ Started(p, <<Line("No migrations to rollback", <<>>, <<>>)>>)
                   /\ Return(p, Nil)
              ELSE /\ Started(p, <<>>)
                   /\ lastMigration' = [lastMigration EXCEPT ![p] = applied[Len(applied)]]
                   /\ pc' = [pc EXCEPT ![p] = "down_load"]
                   /\ result' = [result EXCEPT ![p] = Running]
                   /\ UNCHANGED <<files, appliedSet, idx, migrationFile>>

\* (mutant) the search of Down without its comparison of versions
FindFileAny(fs, version) == IF fs = <<>> THEN NoFile ELSE fs[1]

\* Down, lines 156-162: the first file of the list with the version
FindFile(fs, version) ==
    LET hits == {i \in 1..Len(fs) : fs[i].Version = version}
    IN  IF hits = {} THEN NoFile
        ELSE fs[CHOOSE i \in hits : \A j \in hits : i <= j]

\* (mutant) the checks of Down without the one for an empty DOWN section
DownCheckFileOnly(found, version) ==
    IF found = NoFile THEN Errorf("migration file not found for version", version) ELSE Nil

\* Down, lines 164-170: no file, then no DOWN section
DownCheck(found, version) ==
    IF found = NoFile THEN Errorf("migration file not found for version", version)
    ELSE IF found.DownSQL = EmptySQL THEN Errorf("no DOWN migration found for version", version)
    ELSE Nil

\* Down, lines 150-172: loadMigrationFiles, the search, the two checks
DownLoad(p) ==
    /\ pc[p] = "down_load"
    /\ UNCHANGED <<arg, ret, disk, junk, dirExists, ledger, schema, op, calls, ledger0, schema0, diskSame, prev, appliedCount, invocations>>
    /\ \/ /\ Return(p, Errorf("failed to load migration files", <<>>))
          /\ UNCHANGED stdout
       \/ /\ loadError(dirExists, DirNames) = ErrNone
          /\ LET version == lastMigration[p].Version
                 found == FindFile(loadMigrationFiles(disk), version)
             IN  IF DownCheck(found, version) # Nil
                 THEN /\ Return(p, DownCheck(found, version))
                      /\ UNCHANGED stdout
                 ELSE /\ Println(p, Line("Rolling back migration", found.Version, found.Name))
                      /\ migrationFile' = [migrationFile EXCEPT ![p] = found]
                      /\ pc' = [pc EXCEPT ![p] = "down_exec"]
                      /\ UNCHANGED <<files, appliedSet, idx, lastMigration, result>>

\* Down, lines 174-177: ExecuteSQL(migrationFile.DownSQL)
DownExecuteSQL(p) ==
    /\ pc[p] = "down_exec"
    /\ UNCHANGED <<arg, ret, disk, junk, dirExists, ledger, op, ledger0, schema0, diskSame, prev, appliedCount, invocations, stdout>>
    /\ LET file == migrationFile[p]
       IN  \/ /\ schema' = ExecuteSQL(schema, file, "down", TRUE)
              /\ Logged(p, Call("ExecuteSQL", file, TRUE))
              /\ pc' = [pc EXCEPT ![p] = "down_remove"]
              /\ UNCHANGED <<files, appliedSet, idx, lastMigration, migrationFile, result>>
           \/ /\ schema' = ExecuteSQL(schema, file, "down", FALSE)
              /\ Logged(p, Call("ExecuteSQL", file, FALSE))
              /\ Return(p, Errorf("failed to execute rollback for", file.Version))

\* Down, lines 179-185: RemoveMigration
DownRemoveMigration(p) ==
    /\ pc[p] = "down_remove"
    /\ UNCHANGED <<arg, ret, disk, junk, dirExists, schema, op, ledger0, schema0, diskSame, prev, appliedCount, invocations>>
    /\ LET file == migrationFile[p]
       IN  \/ /\ ledger' = RemoveMigration(ledger, file.Version)
              /\ Logged(p, Call("RemoveMigration", file, TRUE))
              /\ Println(p, Line("Migration rolled back successfully", <<>>, <<>>))
              /\ Return(p, Nil)
           \/ /\ Logged(p, Call("RemoveMigration", file, FALSE))
              /\ Return(p, Errorf("failed to remove migration record", file.Version))
              /\ UNCHANGED <<ledger, stdout>>

\* Status, lines 191-194: loadMigrationFiles
StatusLoad(p) ==
    /\ Begin(p, "Status")
    /\ Called(p, <<>>)
    /\ Started(p, <<>>)
    /\ UNCHANGED <<arg, ret, disk, junk, dirExists, ledger, schema>>
    /\ \/ Return(p, Errorf("failed to load migration files", <<>>))
       \/ /\ loadError(dirExists, DirNames) = ErrNone
          /\ files' = [files EXCEPT ![p] = loadMigrationFiles(disk)]
          /\ pc' = [pc EXCEPT ![p] = "status_get"]
          /\ result' = [result EXCEPT ![p] = Running]
          /\ UNCHANGED <<appliedSet, idx, lastMigration, migrationFile>>

\* (variant) a report that does not look at the applied set
RECURSIVE StatusLinesPending(_, _)
StatusLinesPending(fs, set) ==
    IF fs = <<>> THEN <<>>
    ELSE <<Line("pending", Head(fs).Version, Head(fs).Name)>> \o StatusLinesPending(Tail(fs), set)

\* Status, lines 216-225: one line per file, in the order of the list
RECURSIVE StatusLines(_, _)
StatusLines(fs, set) ==
    IF fs = <<>> THEN <<>>
    ELSE <<Line(IF Head(fs).Version \in set THEN "applied" ELSE "pending",
                Head(fs).Version, Head(fs).Name)>> \o StatusLines(Tail(fs), set)

\* Status, lines 196-227: GetAppliedMigrations, appliedSet, the report
StatusGet(p) ==
    /\ pc[p] = "status_get"
    /\ UNCHANGED <<arg, ret, disk, junk, dirExists, ledger, schema, op, calls, ledger0, schema0, diskSame, prev, appliedCount, invocations>>
    /\ \/ /\ Return(p, Errorf("failed to get applied migrations", <<>>))
          /\ UNCHANGED stdout
       \/ LET applied == GetAppliedMigrations(ledger)
              set == {applied[i].Version : i \in 1..Len(applied)}
          IN  /\ IF Len(files[p]) = 0
                 THEN Println(p, Line("No migrations found", <<>>, <<>>))
                 ELSE stdout' = [stdout EXCEPT ![p] =
                          <<Line("Migration Status:", <<>>, <<>>), Line("================", <<>>, <<>>)>>
                          \o StatusLines(files[p], set)]
              /\ Return(p, Nil)

\* Version, lines 231-244
Version(p) ==
    /\ Begin(p, "Version")
    /\ Called(p, <<>>)
    /\ UNCHANGED <<arg, ret, disk, junk, dirExists, ledger, schema>>
    /\ \/ /\ Started(p, <<>>)
          /\ Return(p, Errorf("failed to get current version", <<>>))
       \/ /\ Started(p, IF GetCurrentVersion(ledger) = <<>>
                        THEN <<Line("No migrations applied yet", <<>>, <<>>)>>
                        ELSE <<Line("Current version", GetCurrentVersion(ledger), <<>>)>>)
          /\ Return(p, Nil)

\* time.Now().Format("2006-01-02 15:04:05"): a date and a time of day
Now == <<50, 48, 48, 54, 45, 48, 49, 45, 48, 50, 32, 49, 53, 58, 48, 52, 58, 48, 53>>

\* the text Create writes: "-- Migration: <name>", "-- Created: <now>", an
\* empty line, the UP marker, two empty lines, the DOWN marker, an empty line
TemplateContent(name) ==
    <<45, 45, 32, 77, 105, 103, 114, 97, 116, 105, 111, 110, 58, 32>> \o name \o <<NewLine>>
    \o <<45, 45, 32, 67, 114, 101, 97, 116, 101, 100, 58, 32>> \o Now \o <<NewLine>>
    \o <<NewLine>>
    \o <<45, 45, 32>> \o UpToken \o <<NewLine>>
    \o <<NewLine>>
    \o <<NewLine>>
    \o <<45, 45, 32>> \o DownToken \o <<NewLine>>
    \o <<NewLine>>

\* the file Create writes, as discovery will see it
Template(filename, name) ==
    LET sql == parseSQL(TemplateContent(name))
    IN  [Version |-> parseMigrationFile(filename).Version,
         Name |-> parseMigrationFile(filename).Name,
         UpSQL |-> sql[1], DownSQL |-> sql[2]]

\* Create, lines 42-76: getNextVersion, sanitizeName, MkdirAll, WriteFile.
\* WriteFile truncates a file that is already there.
Create(p, name) ==
    /\ Begin(p, "Create")
    /\ UNCHANGED <<arg, ret, ledger, schema>>
    /\ LET next == getNextVersion(loadError(dirExists, DirNames), loadMigrationFiles(disk))
           filename == CreateFilename(next.version, name)
       IN  \/ /\ Return(p, Errorf("failed to get next version", <<>>))
              /\ Called(p, <<>>) /\ Started(p, <<>>)
              /\ UNCHANGED <<disk, junk, dirExists>>
           \/ /\ next.err = ErrNone
              /\ Return(p, Errorf("failed to create migrations directory", <<>>))
              /\ Called(p, <<>>) /\ Started(p, <<>>)
              /\ UNCHANGED <<disk, junk, dirExists>>
           \/ /\ next.err = ErrNone
              /\ dirExists' = TRUE
              /\ Return(p, Errorf("failed to create migration file", <<>>))
              /\ Called(p, <<>>) /\ Started(p, <<>>)
              /\ UNCHANGED <<disk, junk>>
           \/ /\ next.err = ErrNone
              /\ dirExists' = TRUE
              /\ IF parseMigrationFile(filename).ok
                 THEN /\ disk' = {f \in disk : Path(f) # filename} \cup {Template(filename, name)}
                      /\ UNCHANGED junk
                 ELSE /\ junk' = junk \cup {filename}
                      /\ UNCHANGED disk
              /\ Called(p, <<Call("WriteFile",
                                  [Version |-> next.version, Name |-> sanitizeName(name)], TRUE)>>)
              /\ Started(p, <<Line("Created migration", filename, <<>>)>>)
              /\ Return(p, Nil)

\* the user puts a file that is no migration into the directory
AddJunk(n) ==
    /\ \A p \in DOMAIN pc : pc[p] = "idle"
    /\ invocations < MaxInvocations
    /\ dirExists
    /\ n \notin DirNames
    /\ junk' = junk \cup {n}
    /\ diskSame' = [p \in DOMAIN pc |-> FALSE]
    /\ UNCHANGED <<arg, ret, disk, dirExists, ledger, schema, pc, op, files, appliedSet, idx, appliedCount,
                   lastMigration, migrationFile, result, stdout, calls, ledger0, schema0, prev,
                   invocations>>

\* the process of an invocation stops between two of its steps (os.Exit, a
\* kill, a power cut): nothing it has committed is undone
Crash(p) ==
    /\ pc[p] # "idle"
    /\ Return(p, Crashed)
    /\ UNCHANGED <<arg, ret, disk, junk, dirExists, ledger, schema, op, calls, ledger0, schema0, diskSame, prev, appliedCount, invocations, stdout>>

\* the user puts a migration file into the directory.  An invocation sees the
\* directory only in loadMigrationFiles, one step, so an edit made while an
\* invocation runs acts as one made before it (Down) or after it (Up).
AddFile(f) ==
    /\ \A p \in Procs : pc[p] = "idle"
    /\ invocations < MaxInvocations
    /\ dirExists
    /\ Cardinality(disk) < MaxFiles
    /\ Path(f) \notin DirNames
    /\ disk' = disk \cup {f}
    /\ diskSame' = [p \in Procs |-> FALSE]
    /\ UNCHANGED <<arg, ret, junk, dirExists, ledger, schema, pc, op, files, appliedSet, idx, appliedCount,
                   lastMigration, migrationFile, result, stdout, calls, ledger0, schema0, prev,
                   invocations>>

\* the user takes a migration file out of the directory
RemoveFile(f) ==
    /\ \A p \in Procs : pc[p] = "idle"
    /\ invocations < MaxInvocations
    /\ f \in disk
    /\ disk' = disk \ {f}
    /\ diskSame' = [p \in Procs |-> FALSE]
    /\ UNCHANGED <<arg, ret, junk, dirExists, ledger, schema, pc, op, files, appliedSet, idx, appliedCount,
                   lastMigration, migrationFile, result, stdout, calls, ledger0, schema0, prev,
                   invocations>>

Next ==
    \/ \E p \in Procs : UpLoad(p)
    \/ \E p \in Procs : UpGet(p)
    \/ \E p \in Procs : UpExecuteSQL(p)
    \/ \E p \in Procs : UpRecordMigration(p)
    \/ \E p \in Procs : DownGet(p)
    \/ \E p \in Procs : DownLoad(p)
    \/ \E p \in Procs : DownExecuteSQL(p)
    \/ \E p \in Procs : DownRemoveMigration(p)
    \/ \E p \in Procs : Crash(p)
    \/ \E f \in MigrationFile : AddFile(f)
    \/ \E f \in disk : RemoveFile(f)

Spec == Init /\ [][Next]_vars

\* ------------------------------------------------------------------ files
\* The commands over directories as users and Create leave them: missing,
\* with gaps in the numbering, with numbers past the padded width, with files
\* that are no migrations; and over the ledgers earlier invocations left.

\* the greatest number "%03d" renders without growing
LastPadded == 10^PadWidth - 1
\* a version after a gap in the numbering
GapVersion == MaxVersion + 2

File(v, n, up, down) == [Version |-> v, Name |-> n, UpSQL |-> up, DownSQL |-> down]

StartFiles ==
    MigrationFile \cup
    {File(Sprintf03(n), NameA, SomeSQL, SomeSQL) : n \in {GapVersion, LastPadded, LastPadded + 1}}

StartDirs == {d \in SUBSET StartFiles : Cardinality(d) <= MaxFiles}

\* the versions a file of these behaviours can carry
FileVersions ==
    {Sprintf03(n) : n \in 1..(GapVersion + MaxInvocations)} \cup
    {Sprintf03(n) : n \in LastPadded..(LastPadded + 1 + MaxInvocations)}

\* ledgers: the versions applied so far, in the order they were recorded
StartLedgers ==
    {<<>>} \cup {<<Row(v, NameA)>> : v \in Versions}
           \cup {<<Row(vw[1], NameA), Row(vw[2], NameA)>> :
                     vw \in {x \in Versions \X Versions : x[1] # x[2]}}

\* labels given to Create: "a", and "!" of which sanitizeName leaves nothing
Bang == <<33>>
Labels == {NameA, Bang}

\* files that are no migrations: "001.sql" and "001_a.txt"
JunkNames == {Sprintf03(1) \o SqlSuffix, Sprintf03(1) \o <<Underscore>> \o NameA \o <<46, 116, 120, 116>>}

InitFiles ==
    /\ dirExists \in BOOLEAN
    /\ disk \in (IF dirExists THEN StartDirs ELSE {{}})
    /\ junk = {}
    /\ ledger \in StartLedgers
    /\ schema = [v \in FileVersions |-> IF v \in LedgerVersions(ledger) THEN 1 ELSE 0]
    /\ NoneStarted(Procs, schema)
    /\ NoFunction

NextFiles ==
    \/ \E p \in Procs : UpLoad(p)
    \/ \E p \in Procs : UpGet(p)
    \/ \E p \in Procs : UpExecuteSQL(p)
    \/ \E p \in Procs : UpRecordMigration(p)
    \/ \E p \in Procs : DownGet(p)
    \/ \E p \in Procs : DownLoad(p)
    \/ \E p \in Procs : DownExecuteSQL(p)
    \/ \E p \in Procs : DownRemoveMigration(p)
    \/ \E p \in Procs : StatusLoad(p)
    \/ \E p \in Procs : StatusGet(p)
    \/ \E p \in Procs : Version(p)
    \/ \E n \in JunkNames : AddJunk(n)

SpecFiles == InitFiles /\ [][NextFiles]_vars

\* ------------------------------------------------------------------ Create
\* Create among the other commands, over directories of files named "a" with
\* gaps in the numbering and numbers past the padded width, with or without
\* the file "001.sql" that is no migration, from a new database or one with a
\* version applied.
CreateDirs == {d \in StartDirs : \A f \in d : f.Name = NameA}

CreateLedgers == {<<>>, <<Row(Sprintf03(1), NameA)>>}

InitCreate ==
    /\ dirExists \in BOOLEAN
    /\ disk \in (IF dirExists THEN CreateDirs ELSE {{}})
    /\ junk \in (IF dirExists THEN {{}, {Sprintf03(1) \o SqlSuffix}} ELSE {{}})
    /\ ledger \in CreateLedgers
    /\ schema = [v \in FileVersions |-> IF v \in LedgerVersions(ledger) THEN 1 ELSE 0]
    /\ NoneStarted(Procs, schema)
    /\ NoFunction

NextCreate ==
    \/ \E p \in Procs : UpLoad(p)
    \/ \E p \in Procs : UpGet(p)
    \/ \E p \in Procs : UpExecuteSQL(p)
    \/ \E p \in Procs : UpRecordMigration(p)
    \/ \E p \in Procs : DownGet(p)
    \/ \E p \in Procs : DownLoad(p)
    \/ \E p \in Procs : DownExecuteSQL(p)
    \/ \E p \in Procs : DownRemoveMigration(p)
    \/ \E p \in Procs : StatusLoad(p)
    \/ \E p \in Procs : StatusGet(p)
    \/ \E p \in Procs, name \in Labels : Create(p, name)

SpecCreate == InitCreate /\ [][NextCreate]_vars

\* ------------------------------------------------------------------ two processes
\* Two turso-migrate processes against the same database and directory: each
\* runs Up or Down, their steps interleave in any order.
Workers == {1, 2}

Dirs == {d \in SUBSET MigrationFile : Cardinality(d) <= MaxFiles}

InitConcurrent ==
    /\ dirExists = TRUE
    /\ disk \in Dirs
    /\ junk = {}
    /\ ledger = <<>>
    /\ schema = [v \in Versions |-> 0]
    /\ NoneStarted(Workers, schema)
    /\ NoFunction

NextConcurrent ==
    \/ \E p \in Workers : UpLoad(p)
    \/ \E p \in Workers : UpGet(p)
    \/ \E p \in Workers : UpExecuteSQL(p)
    \/ \E p \in Workers : UpRecordMigration(p)
    \/ \E p \in Workers : DownGet(p)
    \/ \E p \in Workers : DownLoad(p)
    \/ \E p \in Workers : DownExecuteSQL(p)
    \/ \E p \in Workers : DownRemoveMigration(p)

SpecConcurrent == InitConcurrent /\ [][NextConcurrent]_vars

\* ------------------------------------------------------------------ fixed directory
\* Up and Down, one after the other in any order, each running to its end,
\* failing at any step or stopping between two, over a directory nobody edits
\* whose files have distinct versions, from a new database.
FixedDirs == {d \in Dirs : \A f \in d, g \in d : f.Version = g.Version => f = g}

InitFixed ==
    /\ dirExists = TRUE
    /\ disk \in FixedDirs
    /\ junk = {}
    /\ ledger = <<>>
    /\ schema = [v \in Versions |-> 0]
    /\ NoneStarted(Procs, schema)
    /\ NoFunction

NextFixed ==
    \/ \E p \in Procs : UpLoad(p)
    \/ \E p \in Procs : UpGet(p)
    \/ \E p \in Procs : UpExecuteSQL(p)
    \/ \E p \in Procs : UpRecordMigration(p)
    \/ \E p \in Procs : DownGet(p)
    \/ \E p \in Procs : DownLoad(p)
    \/ \E p \in Procs : DownExecuteSQL(p)
    \/ \E p \in Procs : DownRemoveMigration(p)
    \/ \E p \in Procs : Crash(p)

SpecFixed == InitFixed /\ [][NextFixed]_vars

\* ------------------------------------------------------------------ created files
\* Create, Up and Down over a directory that holds only what Create wrote and
\* nobody has edited, from a new database; the labels "a", "==== UP ====" and
\* "==== DOWN ===="
CreatedLabels == {NameA, UpToken, DownToken}

InitCreated ==
    /\ dirExists = TRUE
    /\ disk = {}
    /\ junk = {}
    /\ ledger = <<>>
    /\ schema = [v \in FileVersions |-> 0]
    /\ NoneStarted(Procs, schema)
    /\ NoFunction

NextCreated ==
    \/ \E p \in Procs, name \in CreatedLabels : Create(p, name)
    \/ \E p \in Procs : UpLoad(p)
    \/ \E p \in Procs : UpGet(p)
    \/ \E p \in Procs : UpExecuteSQL(p)
    \/ \E p \in Procs : UpRecordMigration(p)
    \/ \E p \in Procs : DownGet(p)
    \/ \E p \in Procs : DownLoad(p)
    \/ \E p \in Procs : DownExecuteSQL(p)
    \/ \E p \in Procs : DownRemoveMigration(p)

SpecCreated == InitCreated /\ [][NextCreated]_vars

\* ------------------------------------------------------------------ repeated Down
\* Down invoked again and again, each invocation running to its end, over a
\* directory nobody edits and the ledger earlier invocations left. A file of
\* either name has a DOWN section or none.
DownFiles == {File(v, n, SomeSQL, down) : v \in Versions, n \in Names, down \in {EmptySQL, SomeSQL}}

DownDirs ==
    {d \in SUBSET DownFiles :
        Cardinality(d) <= MaxFiles /\ \A f \in d, g \in d : Path(f) = Path(g) => f = g}

InitDown ==
    /\ dirExists = TRUE
    /\ disk \in DownDirs
    /\ junk = {}
    /\ ledger \in StartLedgers
    /\ schema = [v \in Versions |-> IF v \in LedgerVersions(ledger) THEN 1 ELSE 0]
    /\ NoneStarted(Procs, schema)
    /\ NoFunction

NextDown ==
    \/ \E p \in Procs : DownGet(p)
    \/ \E p \in Procs : DownLoad(p)
    \/ \E p \in Procs : DownExecuteSQL(p)
    \/ \E p \in Procs : DownRemoveMigration(p)

\* the command returns once started, and the user runs it again
SpecDown == InitDown /\ [][NextDown]_vars /\ WF_vars(NextDown)

\* ------------------------------------------------------------------ sanitizeName
\* sanitizeName by itself, over every label of up to MaxLabel bytes out of a
\* lower-case letter, an upper-case letter, a digit, '_', '!' and ' '
MaxLabel == 4

LabelBytes == {97, 90, 55, Underscore, 33, 32}

RECURSIVE Strings(_, _)
Strings(bytes, n) ==
    IF n = 0 THEN {<<>>}
    ELSE Strings(bytes, n - 1) \cup
         {Append(t, b) : t \in {u \in Strings(bytes, n - 1) : Len(u) = n - 1}, b \in bytes}

\* the engine at rest: nothing in the directory or the ledger, no invocation
AtRest ==
    /\ disk = {}
    /\ junk = {}
    /\ dirExists = TRUE
    /\ ledger = <<>>
    /\ schema = [v \in Versions |-> 0]
    /\ NoneStarted(Procs, schema)

EngineVars == <<disk, junk, dirExists, ledger, schema, pc, op, files, appliedSet, idx, appliedCount,
                lastMigration, migrationFile, result, stdout, calls, ledger0, schema0, diskSame,
                prev, invocations>>

InitSanitizeName ==
    /\ AtRest
    /\ arg \in Strings(LabelBytes, MaxLabel)
    /\ ret = <<>>

CallSanitizeName ==
    /\ ret = <<>>
    /\ ret' = <<sanitizeName(arg)>>
    /\ UNCHANGED <<arg, EngineVars>>

NextSanitizeName == CallSanitizeName

SpecSanitizeName == InitSanitizeName /\ [][NextSanitizeName]_vars

\* ------------------------------------------------------------------ parseSQL
\* parseSQL by itself, over every text of up to MaxLines of these pieces: the
\* two marker lines of the template, a line with both tokens, a line of SQL,
\* an indented line of SQL ended by "\r\n", an empty line, a line too long
\* for the Scanner, and a line of SQL without its end
MaxLines == 5

SqlByte == 120

Pieces ==
    {<<45, 45, 32>> \o UpToken \o <<NewLine>>,
     <<45, 45, 32>> \o DownToken \o <<NewLine>>,
     DownToken \o <<32>> \o UpToken \o <<NewLine>>,
     <<SqlByte, NewLine>>,
     <<32, SqlByte, Return13, NewLine>>,
     <<NewLine>>,
     <<LongRun, NewLine>>,
     <<SqlByte>>}

RECURSIVE Texts(_)
Texts(n) ==
    IF n = 0 THEN {<<>>}
    ELSE Texts(n - 1) \cup {t \o q : t \in Texts(n - 1), q \in Pieces}

InitParseSQL ==
    /\ AtRest
    /\ arg \in Texts(MaxLines)
    /\ ret = <<>>

CallParseSQL ==
    /\ ret = <<>>
    /\ ret' = parseSQL(arg)
    /\ UNCHANGED <<arg, EngineVars>>

NextParseSQL == CallParseSQL

SpecParseSQL == InitParseSQL /\ [][NextParseSQL]_vars

\* ------------------------------------------------------------------ properties
IsExec(c) == c.call = "ExecuteSQL"
IsError(r) == r.err \notin {"nil", "running", "crashed"}

\* the rows the successful RecordMigration calls of cs wrote, in order
Recorded(cs) ==
    LET rs == SelectSeq(cs, LAMBDA c : c.call = "RecordMigration" /\ c.ok)
    IN  [i \in 1..Len(rs) |-> Row(rs[i].Version, rs[i].Name)]

\* the database after the committed bodies of cs, all forward, from s
AfterForward(s, cs) ==
    [v \in Versions |->
        s[v] + Cardinality({i \in 1..Len(cs) : IsExec(cs[i]) /\ cs[i].ok /\ cs[i].Version = v})]

\* the greatest version of a non-empty ledger, by string comparison
GreatestVersion(l) ==
    CHOOSE v \in LedgerVersions(l) : \A w \in LedgerVersions(l) \ {v} : StrLess(w, v)

OnDisk(c) == \E f \in disk : f.Version = c.Version /\ f.Name = c.Name

\* C1: in an Up invocation the store calls come in pairs ExecuteSQL(f),
\* RecordMigration(f), one file at a time; every f is a discovered file whose
\* version is not in the ledger as it was when the invocation started; the
\* versions ascend; a failed call is the last call, the invocation has then
\* returned an error naming the version; and the ledger is the ledger at the
\* start followed by exactly the rows of the successful RecordMigration calls.
UpAppliesPendingInOrder ==
    \A p \in Procs : op[p] = "Up" =>
        LET cs == calls[p] IN
        /\ \A i \in 1..Len(cs) :
              /\ cs[i].call = (IF i % 2 = 1 THEN "ExecuteSQL" ELSE "RecordMigration")
              /\ i % 2 = 0 => (cs[i].Version = cs[i-1].Version /\ cs[i].Name = cs[i-1].Name)
              /\ cs[i].Version \notin LedgerVersions(ledger0[p])
              /\ diskSame[p] => OnDisk(cs[i])
              /\ ~cs[i].ok => /\ i = Len(cs)
                              /\ pc[p] = "idle"
                              /\ IsError(result[p])
                              /\ result[p].version = cs[i].Version
        /\ \A i, j \in 1..Len(cs) : i < j => ~StrLess(cs[j].Version, cs[i].Version)
        /\ ledger = ledger0[p] \o Recorded(cs)

\* C1 witness: an Up that applied one version and failed on the body of a greater one
UpStoppedAtSecondBody ==
    \E p \in Procs :
        /\ op[p] = "Up" /\ Len(calls[p]) = 3
        /\ IsExec(calls[p][3]) /\ ~calls[p][3].ok
        /\ StrLess(calls[p][1].Version, calls[p][3].Version)

SecondUpAppliesNothingAfterAnyUp ==
    \A p \in Procs :
        (op[p] = "Up" /\ prev[p].op = "Up" /\ prev[p].result # "crashed" /\ prev[p].diskSame) =>
            (calls[p] = <<>> /\ ledger = ledger0[p])

\* C3 amended: a second Up right after an Up that returned success, the
\* directory unchanged, executes nothing and records nothing.
SecondUpAppliesNothing ==
    \A p \in Procs :
        (op[p] = "Up" /\ prev[p].op = "Up" /\ prev[p].result = "nil" /\ prev[p].diskSame) =>
            (calls[p] = <<>> /\ ledger = ledger0[p] /\ schema = schema0[p])

\* C3 witness: the first Up applied something, the second has returned success
SecondUpReturned ==
    \E p \in Procs :
        /\ op[p] = "Up" /\ prev[p].op = "Up" /\ prev[p].result = "nil" /\ prev[p].diskSame
        /\ prev[p].recorded # {}
        /\ pc[p] = "idle" /\ result[p] = Nil

Reversed(s) == s.last.Version

\* no discovered definition but one of version v was pending for ledger versions vs
OnlyPending(v, vs) == \A f \in disk : f.Version # v => f.Version \in vs

\* C5 as stated: a successful Down that reversed v, then a successful Up, the
\* directory unchanged: the Up executed one forward body, that of the file Down
\* reversed, and the versions of the ledger are those before the Down.
DownThenUpReappliesOnlyReversed ==
    \A p \in Procs :
        (/\ op[p] = "Up" /\ pc[p] = "idle" /\ result[p] = Nil /\ diskSame[p]
         /\ prev[p].op = "Down" /\ prev[p].result = "nil" /\ prev[p].diskSame
         /\ prev[p].last.call = "RemoveMigration") =>
            /\ Len(calls[p]) = 2
            /\ IsExec(calls[p][1])
            /\ calls[p][1].Version = Reversed(prev[p])
            /\ calls[p][1].Name = prev[p].last.Name
            /\ LedgerVersions(ledger) = prev[p].versions0

\* C5 amended: the same, when no discovered definition other than the reversed
\* one was pending before the Down.
DownThenUpRestoresLedger ==
    \A p \in Procs :
        (/\ op[p] = "Up" /\ pc[p] = "idle" /\ result[p] = Nil /\ diskSame[p]
         /\ prev[p].op = "Down" /\ prev[p].result = "nil" /\ prev[p].diskSame
         /\ prev[p].last.call = "RemoveMigration"
         /\ OnlyPending(Reversed(prev[p]), prev[p].versions0)) =>
            /\ Len(calls[p]) = 2
            /\ IsExec(calls[p][1])
            /\ calls[p][1].Version = Reversed(prev[p])
            /\ calls[p][1].Name = prev[p].last.Name
            /\ LedgerVersions(ledger) = prev[p].versions0

\* C5 witness: Down reversed a version and the Up after it returned success
UpAfterDownReturned ==
    \E p \in Procs :
        /\ op[p] = "Up" /\ pc[p] = "idle" /\ result[p] = Nil /\ diskSame[p]
        /\ prev[p].op = "Down" /\ prev[p].result = "nil" /\ prev[p].diskSame
        /\ prev[p].last.call = "RemoveMigration"
        /\ OnlyPending(Reversed(prev[p]), prev[p].versions0)
        /\ Reversed(prev[p]) \in LedgerVersions(ledger)

\* the discovered definitions of version v have non-empty forward and backward bodies
BothBodies(v) ==
    /\ \E f \in disk : f.Version = v
    /\ \A f \in disk : f.Version = v => (f.UpSQL # EmptySQL /\ f.DownSQL # EmptySQL)

\* C6 as stated: an Up that applied v (both bodies non-empty) and returned
\* success, then a Down that returned success: the ledger has no row for v.
UpThenDownRemovesEveryApplied ==
    \A p \in Procs :
        (/\ op[p] = "Down" /\ pc[p] = "idle" /\ result[p] = Nil /\ diskSame[p]
         /\ prev[p].op = "Up" /\ prev[p].result = "nil") =>
            \A v \in prev[p].recorded : BothBodies(v) => v \notin LedgerVersions(ledger)

\* C6 amended: the same for the v that is the greatest version of the ledger
\* after the Up.
UpThenDownRemovesGreatestApplied ==
    \A p \in Procs :
        (/\ op[p] = "Down" /\ pc[p] = "idle" /\ result[p] = Nil /\ diskSame[p]
         /\ prev[p].op = "Up" /\ prev[p].result = "nil") =>
            \A v \in prev[p].recorded :
                (BothBodies(v) /\ v = GreatestVersion(ledger0[p])) =>
                    v \notin LedgerVersions(ledger)

\* C6 witness: Up applied two versions, the Down after it returned success
DownAfterUpOfTwoReturned ==
    \E p \in Procs :
        /\ op[p] = "Down" /\ pc[p] = "idle" /\ result[p] = Nil /\ diskSame[p]
        /\ prev[p].op = "Up" /\ prev[p].result = "nil"
        /\ Cardinality(prev[p].recorded) = 2
        /\ \E v \in prev[p].recorded : BothBodies(v) /\ v = GreatestVersion(ledger0[p])

\* C7 as stated: the rows of the ledger are in ascending version order in the
\* order they were recorded, so that the row Down targets is the row recorded
\* last.
DownReversesLastRecorded ==
    /\ \A i, j \in 1..Len(ledger) : i < j => StrLess(ledger[i].Version, ledger[j].Version)
    /\ \A p \in Procs :
          (op[p] = "Down" /\ calls[p] # <<>>) =>
              calls[p][1].Version = Last(ledger0[p]).Version

\* a Down invocation that read a non-empty ledger and the directory, and returned
DownLooked(p) ==
    /\ op[p] = "Down" /\ pc[p] = "idle" /\ diskSame[p] /\ ledger0[p] # <<>>
    /\ result[p].err \notin {"failed to get applied migrations",
                             "failed to load migration files", "crashed"}

Untouched(p) == calls[p] = <<>> /\ ledger = ledger0[p] /\ schema = schema0[p]

\* C8: when no discovered definition has the greatest version of the ledger,
\* Down returns the error "migration file not found" naming that version, has
\* made no store call, and the ledger and the database are as they were.
DownMissingFileFails ==
    \A p \in Procs :
        (DownLooked(p) /\ ~\E f \in disk : f.Version = GreatestVersion(ledger0[p])) =>
            /\ result[p] = Errorf("migration file not found for version",
                                  GreatestVersion(ledger0[p]))
            /\ Untouched(p)

\* C8 witness: a Down on a ledger whose greatest version has lost its file,
\* another file being there
DownFoundNoFile ==
    \E p \in Procs :
        /\ DownLooked(p) /\ disk # {}
        /\ ~\E f \in disk : f.Version = GreatestVersion(ledger0[p])

\* C9: when the discovered definition of the greatest version of the ledger has
\* an empty backward body, Down returns the error "no DOWN migration found"
\* naming that version (never success), has made no store call, and the ledger
\* and the database are as they were.
DownWithoutDownSectionFails ==
    \A p \in Procs :
        (/\ DownLooked(p)
         /\ \E f \in disk : f.Version = GreatestVersion(ledger0[p])
         /\ \A f \in disk : f.Version = GreatestVersion(ledger0[p]) => f.DownSQL = EmptySQL) =>
            /\ result[p] = Errorf("no DOWN migration found for version",
                                  GreatestVersion(ledger0[p]))
            /\ Untouched(p)

\* C9 witness: a Down on a ledger of two rows whose greatest version has a file
\* with an empty backward body
DownFoundNoDownSection ==
    \E p \in Procs :
        /\ DownLooked(p) /\ Len(ledger0[p]) = 2
        /\ \E f \in disk : f.Version = GreatestVersion(ledger0[p]) /\ f.DownSQL = EmptySQL
        /\ \A f \in disk : f.Version = GreatestVersion(ledger0[p]) => f.DownSQL = EmptySQL

\* the file of call c is the only discovered file of its version
UniqueVersion(c) == \A f \in disk : f.Version = c.Version => f.Name = c.Name

\* the invocation stopped after ExecuteSQL committed and before the ledger write
StoppedBetween(o, r, last) == o \in {"Up", "Down"} /\ r = "crashed" /\ IsExec(last)

\* what C10 says of an invocation of p stopped between the two steps, and of the
\* next invocation of the same operation
StoppedState(p) ==
    LET v == Last(calls[p]).Version IN
    IF op[p] = "Up"
    THEN schema[v] = schema0[p][v] + 1 /\ v \notin LedgerVersions(ledger)
    ELSE schema[v] = schema0[p][v] - 1 /\ v \in LedgerVersions(ledger)

ExecutesAgain(p) ==
    /\ pc[p] = "idle" => calls[p] # <<>>
    /\ calls[p] # <<>> =>
          /\ IsExec(calls[p][1])
          /\ calls[p][1].Version = prev[p].last.Version
          /\ calls[p][1].Name = prev[p].last.Name

\* the invocation of p follows one of the same operation that stopped between
\* the two steps, the directory unchanged, and has read ledger and directory
FollowsStopped(p) ==
    /\ StoppedBetween(prev[p].op, prev[p].result, prev[p].last)
    /\ op[p] = prev[p].op /\ prev[p].diskSame /\ diskSame[p]
    /\ result[p].err \notin {"failed to get applied migrations",
                             "failed to load migration files", "crashed"}

\* C10 as stated: body execution and ledger write are two steps.  When an Up
\* stops between them, the forward body is committed and its version is not in
\* the ledger; when a Down stops between them, the backward body is committed
\* and its version is still in the ledger.  The next invocation of the same
\* operation, the directory unchanged, makes ExecuteSQL of that same body its
\* first store call, and does not return success without it.
StopBetweenStepsIsRepeated ==
    \A p \in Procs :
        /\ (StoppedBetween(op[p], result[p].err, Last(<<NoCall>> \o calls[p])) /\ diskSame[p])
              => StoppedState(p)
        /\ FollowsStopped(p) => ExecutesAgain(p)

\* C10 for definitions whose version no other discovered file carries (Down: for
\* all): the statement above holds.
StopBetweenStepsIsRepeatedForUniqueVersions ==
    \A p \in Procs :
        /\ (/\ StoppedBetween(op[p], result[p].err, Last(<<NoCall>> \o calls[p]))
            /\ diskSame[p]
            /\ op[p] = "Up" => UniqueVersion(Last(calls[p]))) => StoppedState(p)
        /\ (/\ FollowsStopped(p)
            /\ op[p] = "Up" => UniqueVersion(prev[p].last)) => ExecutesAgain(p)

\* an Up stopped between the two steps, and the next Up committed the same
\* forward body a second time
ForwardBodyCommittedTwice ==
    \E p \in Procs :
        /\ FollowsStopped(p) /\ op[p] = "Up"
        /\ UniqueVersion(prev[p].last)
        /\ calls[p] # <<>> /\ calls[p][1].ok
        /\ schema[prev[p].last.Version] = 2

\* ------------------------------------------------------------------ two processes
\* the committed forward bodies of version v among the calls cs
Commits(cs, v) == {i \in 1..Len(cs) : IsExec(cs[i]) /\ cs[i].ok /\ cs[i].Version = v}

\* C11: two Up invocations, the first two invocations on a new database, that
\* have each committed the forward body of a file of version v: neither had v
\* in the ledger it read, and the database holds the body twice, the second
\* commit neither rejected nor rolled back.
ConcurrentUpsCommitTwice ==
    \A p, q \in Workers : \A v \in Versions :
        (/\ p # q /\ op[p] = "Up" /\ op[q] = "Up"
         /\ prev[p].op = "none" /\ prev[q].op = "none"
         /\ Commits(calls[p], v) # {} /\ Commits(calls[q], v) # {}) =>
            /\ v \notin LedgerVersions(ledger0[p]) \cup LedgerVersions(ledger0[q])
            /\ schema[v] = Cardinality(Commits(calls[p], v)) + Cardinality(Commits(calls[q], v))
            /\ schema[v] >= 2

\* C11 witness: both invocations have read a ledger without v, both have
\* committed the forward body of the same file, neither has recorded it yet
BothCommittedSameBody ==
    \E v \in Versions :
        /\ \A p \in Workers :
              /\ op[p] = "Up" /\ pc[p] = "up_record"
              /\ v \notin appliedSet[p]
              /\ files[p][idx[p]].Version = v
              /\ Commits(calls[p], v) # {}
        /\ files[1][idx[1]] = files[2][idx[2]]
        /\ schema[v] = 2

\* C12: the ledger never holds two rows of one version, whatever the
\* interleaving of the Up and Down invocations of two processes; an Up whose
\* RecordMigration was rejected has returned the error "failed to record
\* migration" naming the version.
LedgerVersionsUnique ==
    /\ \A i, j \in 1..Len(ledger) : i # j => ledger[i].Version # ledger[j].Version
    /\ \A p \in Workers :
          (calls[p] # <<>> /\ Last(calls[p]).call = "RecordMigration" /\ ~Last(calls[p]).ok) =>
              /\ op[p] = "Up" /\ pc[p] = "idle"
              /\ result[p] = Errorf("failed to record migration", Last(calls[p]).Version)

\* C12 witness: the other process recorded v while this Up, which had read a
\* ledger without v, was between its two steps; its RecordMigration was rejected
RecordRejectedAfterRace ==
    \E p \in Workers : \E q \in Workers \ {p} :
        /\ op[p] = "Up" /\ pc[p] = "idle"
        /\ calls[p] # <<>> /\ Last(calls[p]).call = "RecordMigration" /\ ~Last(calls[p]).ok
        /\ Last(calls[p]).Version \notin LedgerVersions(ledger0[p])
        /\ op[q] = "Up"
        /\ Row(Last(calls[p]).Version, Last(calls[p]).Name) \in
              {Recorded(calls[q])[k] : k \in 1..Len(Recorded(calls[q]))}
        /\ Last(calls[p]).Version \in LedgerVersions(ledger)

\* ------------------------------------------------------------------ files
\* the file name n is <digits>_<name>.sql, digits and name not empty
Conforming(n) ==
    \E k \in 1..Len(n) :
        /\ \A i \in 1..k : IsDigit(n[i])
        /\ Len(n) >= k + 2 + Len(SqlSuffix)
        /\ n[k + 1] = Underscore
        /\ \A i \in 1..Len(SqlSuffix) : n[Len(n) - Len(SqlSuffix) + i] = SqlSuffix[i]

\* the file name n carries the migration extension
IsSql(n) == Len(n) >= Len(SqlSuffix) /\ \A i \in 1..Len(SqlSuffix) : n[Len(n) - Len(SqlSuffix) + i] = SqlSuffix[i]

\* the invocation of p has returned, nobody else touched the directory since it
\* started, and the directory held then a .sql file with a non-conforming name
ReturnedOverBadName(p) ==
    /\ pc[p] = "idle" /\ diskSame[p]
    /\ \E n \in junk :
          /\ IsSql(n) /\ ~Conforming(n)
          /\ \A i \in 1..Len(calls[p]) : Path(calls[p][i]) # n

\* C13 as stated: over a directory with a .sql file of a non-conforming name,
\* Up, Down, Status and Create each return an error, and have executed no SQL,
\* left the ledger as it was and written no file.
BadNameFailsEveryCommand ==
    \A p \in Procs :
        (ReturnedOverBadName(p) /\ op[p] \in {"Up", "Down", "Status", "Create"}) =>
            (IsError(result[p]) /\ Untouched(p))

\* C13 amended: the same for Up, Status, Create, and for Down when the ledger
\* is not empty; on an empty ledger Down returns success before discovery.  The
\* errors are "failed to load migration files" (Up, Status, Down: or its "failed
\* to get applied migrations") and "failed to get next version" (Create).
BadNameFailsDiscovery ==
    \A p \in Procs :
        ReturnedOverBadName(p) =>
            /\ op[p] \in {"Up", "Status"} =>
                  (result[p].err = "failed to load migration files" /\ Untouched(p))
            /\ op[p] = "Create" =>
                  (result[p].err = "failed to get next version" /\ Untouched(p))
            /\ (op[p] = "Down" /\ ledger0[p] # <<>>) =>
                  /\ result[p].err \in {"failed to load migration files",
                                         "failed to get applied migrations"}
                  /\ Untouched(p)
            /\ (op[p] = "Down" /\ ledger0[p] = <<>>) =>
                  /\ result[p].err \in {"nil", "failed to get applied migrations"}
                  /\ Untouched(p)

\* C13 witness: a Down that read a ledger whose greatest version has its file,
\* with both bodies, in the directory, and failed in discovery
DownStoppedByBadName ==
    \E p \in Procs :
        /\ ReturnedOverBadName(p) /\ op[p] = "Down" /\ ledger0[p] # <<>>
        /\ result[p].err = "failed to load migration files"
        /\ BothBodies(GreatestVersion(ledger0[p]))

\* the invocation of p has returned and the migrations directory does not exist
\* (only a successful Create makes it, so it did not exist when p started)
ReturnedOverMissingDir(p) == pc[p] = "idle" /\ op[p] # "none" /\ ~dirExists

\* C14 as stated: over a migrations directory that does not exist, Up reports
\* "No migrations found" and returns success, and Status returns success.
MissingDirIsEmptyDir ==
    \A p \in Procs :
        ReturnedOverMissingDir(p) =>
            /\ op[p] = "Up" =>
                  (result[p] = Nil /\ stdout[p] = <<Line("No migrations found", <<>>, <<>>)>>)
            /\ op[p] = "Status" => result[p] = Nil

\* C14 amended: over a migrations directory that does not exist, discovery
\* fails: Up and Status return the error "failed to load migration files",
\* having printed nothing, made no store call and changed nothing.
MissingDirFailsDiscovery ==
    \A p \in Procs :
        (ReturnedOverMissingDir(p) /\ op[p] \in {"Up", "Status"}) =>
            /\ result[p] = Errorf("failed to load migration files", <<>>)
            /\ stdout[p] = <<>>
            /\ Untouched(p)

\* C14 witness: an Up that returned over a missing directory, with a ledger
\* that is not empty
UpOverMissingDir ==
    \E p \in Procs :
        ReturnedOverMissingDir(p) /\ op[p] = "Up" /\ ledger0[p] # <<>> /\ IsError(result[p])

\* the invocation of p has just run discovery with success: files[p] is the list
\* loadMigrationFiles returned over the directory as it is
Discovered(p) == pc[p] \in {"up_get", "status_get"}

\* C15: over conforming files discovery returns one definition per file (the
\* version and name of its file name, and its bodies), each file once, in
\* non-descending order of the version strings; two files of one version are
\* both returned.
DiscoveryReturnsEveryFileInOrder ==
    \A p \in Procs :
        Discovered(p) =>
            /\ Len(files[p]) = Cardinality(disk)
            /\ \A f \in disk : Cardinality({i \in 1..Len(files[p]) : files[p][i] = f}) = 1
            /\ \A i \in 1..(Len(files[p]) - 1) :
                  ~StrLess(files[p][i + 1].Version, files[p][i].Version)

\* C15 witness: discovery has returned two files of one version
DiscoveredTwoOfOneVersion ==
    \E p \in Procs :
        /\ Discovered(p) /\ Len(files[p]) = 2
        /\ files[p][1].Version = files[p][2].Version
        /\ files[p][1] # files[p][2]

\* the invocation of p has returned over a migrations directory that exists
\* and holds no file
ReturnedOverEmptyDir(p) ==
    pc[p] = "idle" /\ op[p] # "none" /\ diskSame[p] /\ dirExists /\ DirNames = {}

\* the invocation of p returned an error of reading the directory or the store
ReadFailed(p) ==
    result[p].err \in {"failed to load migration files", "failed to get applied migrations",
                       "failed to get current version"}

\* what Up and Status do over an empty directory, whatever the ledger: they
\* print "No migrations found" and return success, with no store call and the
\* ledger and database as they were (unless reading the directory or the store
\* failed)
NothingFound(p) ==
    /\ Untouched(p)
    /\ \/ ReadFailed(p)
       \/ result[p] = Nil /\ stdout[p] = <<Line("No migrations found", <<>>, <<>>)>>

\* C16 as stated: with an empty migrations directory and any ledger, Up and
\* Status report "No migrations found" and return success, changing nothing,
\* and Version reports "No migrations applied yet".
EmptyDirReportsNothingApplied ==
    \A p \in Procs :
        ReturnedOverEmptyDir(p) =>
            /\ op[p] \in {"Up", "Status"} => NothingFound(p)
            /\ op[p] = "Version" =>
                  \/ ReadFailed(p)
                  \/ stdout[p] = <<Line("No migrations applied yet", <<>>, <<>>)>>

\* C16 amended: the same for Up and Status; Version reports "No migrations
\* applied yet" when the ledger is empty, and otherwise the greatest version of
\* the ledger, whatever the directory holds.
EmptyDirReportsNothingFound ==
    \A p \in Procs :
        ReturnedOverEmptyDir(p) =>
            /\ op[p] \in {"Up", "Status"} => NothingFound(p)
            /\ op[p] = "Version" =>
                  \/ ReadFailed(p)
                  \/ /\ ledger = <<>>
                     /\ stdout[p] = <<Line("No migrations applied yet", <<>>, <<>>)>>
                  \/ /\ ledger # <<>>
                     /\ stdout[p] = <<Line("Current version", GreatestVersion(ledger), <<>>)>>

\* C16 witness: an Up over an empty directory and a ledger of two entries has
\* returned success
UpFoundNothingOnUsedDatabase ==
    \E p \in Procs :
        ReturnedOverEmptyDir(p) /\ op[p] = "Up" /\ Len(ledger0[p]) = 2 /\ result[p] = Nil

\* the Status invocation of p has returned success over the directory as it is
StatusReported(p) == op[p] = "Status" /\ pc[p] = "idle" /\ result[p] = Nil /\ diskSame[p]

\* the lines of a Status report after its two header lines
ReportLines(p) == SubSeq(stdout[p], 3, Len(stdout[p]))

\* C17: Status makes no store write and leaves the ledger and the database as
\* they were, at every step; its report has one line per discovered file, each
\* file once, in non-descending order of the versions, the line saying
\* "applied" exactly when the file's version is in the ledger and "pending"
\* otherwise.
StatusReportsEveryFile ==
    \A p \in Procs :
        op[p] = "Status" =>
            /\ Untouched(p)
            /\ (StatusReported(p) /\ disk # {}) =>
                  /\ Len(ReportLines(p)) = Cardinality(disk)
                  /\ \A f \in disk :
                        \E i \in 1..Len(ReportLines(p)) :
                            /\ ReportLines(p)[i] =
                                  Line(IF f.Version \in LedgerVersions(ledger)
                                       THEN "applied" ELSE "pending", f.Version, f.Name)
                            /\ \A j \in 1..Len(ReportLines(p)) :
                                  (ReportLines(p)[j].a = f.Version /\ ReportLines(p)[j].b = f.Name)
                                      => j = i
                  /\ \A i \in 1..(Len(ReportLines(p)) - 1) :
                        ~StrLess(ReportLines(p)[i + 1].a, ReportLines(p)[i].a)

\* C17 witness: a Status report with an applied file before a pending one
StatusReportedAppliedAndPending ==
    \E p \in Procs :
        /\ StatusReported(p) /\ Len(ReportLines(p)) = 2
        /\ ReportLines(p)[1].msg = "applied"
        /\ ReportLines(p)[2].msg = "pending"

\* the Version invocation of p has returned success
VersionReported(p) == op[p] = "Version" /\ pc[p] = "idle" /\ result[p] = Nil

CreateSucceeded(p) ==
    invocations' = invocations + 1 /\ op'[p] = "Create" /\ result'[p] = Nil

\* the version the Create of this step allocated, and the file name it wrote
Allocated(p) == calls'[p][1].Version
Written(p) == Path(calls'[p][1])

\* the greatest number among the versions of the files of d, 0 when d is empty
GreatestNumber(d) ==
    CHOOSE m \in {Atoi(f.Version) : f \in d} \cup {0} :
        \A n \in {Atoi(f.Version) : f \in d} : n <= m

\* C19: a successful Create allocates the greatest number among the versions
\* of the directory plus one, zero-padded to three digits at least; 001 when
\* the directory holds no migration or does not exist.
CreateAllocatesGreatestPlusOne ==
    [][\A p \in Procs :
          CreateSucceeded(p) => Allocated(p) = Sprintf03(GreatestNumber(disk) + 1)]_vars

\* C20: a successful Create writes to a file name that is not in the directory,
\* and when the invocation before it was a successful Create too, allocates a
\* version whose number is greater than the one allocated then.
CreatesAllocateIncreasing ==
    [][\A p \in Procs :
          CreateSucceeded(p) =>
              /\ Written(p) \notin DirNames
              /\ (op[p] = "Create" /\ result[p] = Nil) =>
                     Atoi(calls[p][1].Version) < Atoi(Allocated(p))]_vars

\* (lemma) both hold of a Create over a directory whose versions all have the
\* same number of digits: there the order of the strings is the order of the
\* numbers
SameWidth(d) == \A f \in d, g \in d : Len(f.Version) = Len(g.Version)

CreateAllocatesGreatestPlusOneOfSameWidth ==
    [][\A p \in Procs :
          (CreateSucceeded(p) /\ SameWidth(disk)) =>
              /\ Allocated(p) = Sprintf03(GreatestNumber(disk) + 1)
              /\ Written(p) \notin DirNames]_vars

\* a second successful Create in a row has allocated the version of the first
CreatedSameVersionTwice ==
    \E p \in Procs :
        /\ pc[p] = "idle" /\ op[p] = "Create" /\ result[p] = Nil
        /\ prev[p].op = "Create" /\ prev[p].result = "nil"
        /\ prev[p].last.Version = calls[p][1].Version

\* ------------------------------------------------------------------ sanitizeName
\* a letter or a digit
Alnum(b) == b \in (48..57) \cup (65..90) \cup (97..122)

\* the positions of the letters and digits of s
Letters(s) == {i \in 1..Len(s) : Alnum(s[i])}

GreatestOf(I) == CHOOSE m \in I : \A i \in I : i <= m

\* the letters and digits of s at the positions I, in order, with one '_'
\* wherever two of them are not neighbours in s
RECURSIVE Joined(_, _)
Joined(s, I) ==
    IF I = {} THEN <<>>
    ELSE IF I = {GreatestOf(I)} THEN <<s[GreatestOf(I)]>>
    ELSE Joined(s, I \ {GreatestOf(I)})
         \o (IF GreatestOf(I \ {GreatestOf(I)}) + 1 < GreatestOf(I) THEN <<Underscore>> ELSE <<>>)
         \o <<s[GreatestOf(I)]>>

Created(p) == pc[p] = "idle" /\ op[p] = "Create" /\ result[p] = Nil /\ diskSame[p]

\* discovery over the directory as it is succeeds and returns a definition with
\* the version and the name of the call c
Discovers(c) ==
    /\ loadError(dirExists, DirNames) = ErrNone
    /\ \E i \in 1..Len(loadMigrationFiles(disk)) :
          /\ loadMigrationFiles(disk)[i].Version = c.Version
          /\ loadMigrationFiles(disk)[i].Name = c.Name

\* C22: after a successful Create, discovery succeeds and returns a definition
\* with the version Create allocated and the sanitized label as its name, the
\* empty name when the label sanitizes to nothing.
CreatedFileIsDiscovered ==
    \A p \in Procs : Created(p) => Discovers(calls[p][1])

\* (lemma) C22 for the labels that do not sanitize to nothing
NamedCreatedFileIsDiscovered ==
    \A p \in Procs : (Created(p) /\ calls[p][1].Name # <<>>) => Discovers(calls[p][1])

\* an Up right after a successful Create has failed in discovery over the file
\* that Create wrote
UpStoppedByCreatedFile ==
    \E p \in Procs :
        /\ pc[p] = "idle" /\ op[p] = "Up" /\ diskSame[p]
        /\ prev[p].op = "Create" /\ prev[p].result = "nil" /\ prev[p].diskSame
        /\ junk = {Path(prev[p].last)}
        /\ result[p] = Errorf("failed to load migration files", <<>>)

\* ------------------------------------------------------------------ schema and ledger
\* the ledger l and the database s agree: the forward body of a version of the
\* ledger is committed once and not reversed, and no body of another version is
Agree(l, s) == \A v \in DOMAIN s : s[v] = (IF v \in LedgerVersions(l) THEN 1 ELSE 0)

\* the Up or Down invocation of p has returned, with success or with an error
Returned(p) == pc[p] = "idle" /\ op[p] \in {"Up", "Down"} /\ result[p] # Crashed

\* C23: when an Up or Down invocation that started with the ledger and the
\* database in agreement has returned, with success or with an error, they
\* agree.
ReturnedKeepsAgreement ==
    \A p \in Procs :
        (Returned(p) /\ Agree(ledger0[p], schema0[p])) => Agree(ledger, schema)

\* (lemma) C23 for the invocations that returned success, over files of
\* versions no other file carries
SucceededKeepsAgreement ==
    \A p \in Procs :
        (Returned(p) /\ result[p] = Nil /\ Agree(ledger0[p], schema0[p])
           /\ \A i \in 1..Len(calls[p]) : UniqueVersion(calls[p][i]))
            => Agree(ledger, schema)

\* an Up has returned the error of RecordMigration over a file whose version
\* is not in the ledger: the forward body is committed without a ledger entry
UpCommittedWithoutEntry ==
    \E p \in Procs :
        /\ Returned(p) /\ op[p] = "Up" /\ Agree(ledger0[p], schema0[p])
        /\ result[p].err = "failed to record migration"
        /\ result[p].version \notin LedgerVersions(ledger)
        /\ schema[result[p].version] > 0

\* ------------------------------------------------------------------ order of the two steps
\* the call at position i of cs comes right after the committed ExecuteSQL of
\* the same file
FollowsCommit(cs, i) ==
    /\ i > 1
    /\ IsExec(cs[i - 1]) /\ cs[i - 1].ok
    /\ cs[i - 1].Version = cs[i].Version /\ cs[i - 1].Name = cs[i].Name

\* C24: at every step of an Up, each RecordMigration it has called comes right
\* after the committed ExecuteSQL of the same file, and every version it has
\* added to the ledger has a forward body committed by this invocation; at
\* every step of a Down, its RemoveMigration comes right after the committed
\* ExecuteSQL of the same file, and the version it has removed has its
\* backward body committed by this invocation.
LedgerChangeFollowsCommit ==
    \A p \in Procs :
        /\ op[p] \in {"Up", "Down"} =>
              \A i \in 1..Len(calls[p]) : ~IsExec(calls[p][i]) => FollowsCommit(calls[p], i)
        /\ op[p] = "Up" =>
              \A v \in LedgerVersions(ledger) \ LedgerVersions(ledger0[p]) :
                  schema[v] > schema0[p][v]
        /\ op[p] = "Down" =>
              \A v \in LedgerVersions(ledger0[p]) \ LedgerVersions(ledger) :
                  schema[v] < schema0[p][v]

\* C24 witness: an Up has recorded one version and stands before the forward
\* body of the next
UpRecordedBeforeNextBody ==
    \E p \in Procs :
        /\ op[p] = "Up" /\ pc[p] = "up_exec"
        /\ Len(calls[p]) = 2 /\ calls[p][2].call = "RecordMigration" /\ calls[p][2].ok
        /\ calls[p][2].Version \in LedgerVersions(ledger) \ LedgerVersions(ledger0[p])

\* ------------------------------------------------------------------ one body per version
\* C25: an Up invocation executes at most one forward body per version, also
\* when two discovered files carry the same version.
UpExecutesOneBodyPerVersion ==
    \A p \in Procs :
        op[p] = "Up" =>
            \A i \in 1..Len(calls[p]), j \in 1..Len(calls[p]) :
                (i < j /\ IsExec(calls[p][i]) /\ IsExec(calls[p][j])) =>
                    calls[p][i].Version # calls[p][j].Version

\* (lemma) C25 over the files whose version no other file carries
UpExecutesOneBodyPerUniqueVersion ==
    \A p \in Procs :
        op[p] = "Up" =>
            \A i \in 1..Len(calls[p]), j \in 1..Len(calls[p]) :
                (i < j /\ IsExec(calls[p][i]) /\ IsExec(calls[p][j])
                   /\ diskSame[p] /\ UniqueVersion(calls[p][i])) =>
                    calls[p][i].Version # calls[p][j].Version

\* ------------------------------------------------------------------ fixed directory
\* the first k versions of the discovered list
FirstVersions(k) == {loadMigrationFiles(disk)[i].Version : i \in 1..k}

\* C26: over a fixed directory of files with distinct versions, from an empty
\* ledger, the versions of the ledger are at every step those of the first k
\* files of the discovered list for some k (so all of them are discovered);
\* an Up has removed no version and a Down has added none.
LedgerIsPrefixOfDiscovered ==
    /\ \E k \in 0..Cardinality(disk) : LedgerVersions(ledger) = FirstVersions(k)
    /\ \A p \in Procs :
          /\ op[p] = "Up" => LedgerVersions(ledger0[p]) \subseteq LedgerVersions(ledger)
          /\ op[p] = "Down" => LedgerVersions(ledger) \subseteq LedgerVersions(ledger0[p])

\* C26 witness: of two files both applied by the Up before, a Down has removed
\* the second and the ledger holds the first
DownLeftFirstOfTwo ==
    \E p \in Procs :
        /\ pc[p] = "idle" /\ op[p] = "Down" /\ result[p] = Nil
        /\ prev[p].op = "Up" /\ Cardinality(prev[p].recorded) = 2
        /\ Cardinality(disk) = 2
        /\ LedgerVersions(ledger) = FirstVersions(1)

\* ------------------------------------------------------------------ parseSQL
\* the text as lines: split at every "\n", the end-of-line marker dropped
TextLines(text) == ScanLines(text)

\* a marker line: one that contains a token
Marker(line) == Contains(line, UpToken) \/ Contains(line, DownToken)

\* the section the line at position i belongs to: that of the last marker line
\* before it ("" before the first), a line with both tokens being a forward
\* marker
SectionAt(lines, i) ==
    IF \A j \in 1..(i - 1) : ~Marker(lines[j]) THEN ""
    ELSE IF Contains(lines[GreatestOf({j \in 1..(i - 1) : Marker(lines[j])})], UpToken) THEN "up"
    ELSE "down"

\* the lines of a section, marker lines left out, in order
RECURSIVE SectionLines(_, _, _)
SectionLines(lines, n, section) ==
    IF n = 0 THEN <<>>
    ELSE SectionLines(lines, n - 1, section)
         \o (IF ~Marker(lines[n]) /\ SectionAt(lines, n) = section THEN <<lines[n]>> ELSE <<>>)

Body(text, section) ==
    TrimSpace(Join(SectionLines(TextLines(text), Len(TextLines(text)), section)))

\* C27: for every text, parseSQL returns as forward body the lines whose last
\* marker line before them holds the forward token, and as backward body those
\* whose last marker line holds the backward token only, joined in order and
\* trimmed of surrounding white space; marker lines and the lines before the
\* first marker are in neither.
ParseSQLCollectsSections ==
    ret # <<>> => ret = <<Body(arg, "up"), Body(arg, "down")>>

\* (lemma) C27 for the texts that have no line of MaxScanTokenSize bytes or more
ParseSQLCollectsSectionsOfShortLines ==
    (ret # <<>> /\ \A i \in 1..Len(arg) : arg[i] # LongRun) =>
        ret = <<Body(arg, "up"), Body(arg, "down")>>

\* parseSQL has returned an empty forward body for a text with a line of SQL
\* under its forward marker, after a line too long for the Scanner
ParsedUpToLongLine ==
    /\ arg = <<45, 45, 32>> \o UpToken \o <<NewLine, LongRun, NewLine, SqlByte, NewLine>>
    /\ ret = <<<<>>, <<>>>>

\* parseSQL has returned the lines under two forward markers as one body
ParsedTwoForwardSections ==
    /\ ret = <<<<SqlByte, NewLine, SqlByte>>, <<>>>>
    /\ Len(TextLines(arg)) = 5 /\ Marker(TextLines(arg)[3])

\* ------------------------------------------------------------------ unedited files
\* the label holds one of the tokens
HasToken(name) == Contains(name, UpToken) \/ Contains(name, DownToken)

\* this step is a successful Create of p with the label name, and the file it
\* wrote has nothing in either body
WroteEmptyBodies(p, name) ==
    \E f \in disk' : Path(f) = Written(p) /\ f.UpSQL = EmptySQL /\ f.DownSQL = EmptySQL

\* a successful Up over a directory nobody edited has executed, with success,
\* the forward body of every pending file that has an empty one, and the
\* ledger holds its version
UpAppliedEmptyBodies(p) ==
    (op[p] = "Up" /\ pc[p] = "idle" /\ result[p] = Nil /\ diskSame[p]) =>
        \A f \in disk :
            (f.UpSQL = EmptySQL /\ f.Version \notin LedgerVersions(ledger0[p])) =>
                /\ \E i \in 1..Len(calls[p]) : calls[p][i] = Call("ExecuteSQL", f, TRUE)
                /\ f.Version \in LedgerVersions(ledger)

\* a Down whose target has a file, with an empty backward body, has returned
\* "no DOWN migration found" with no store call, the ledger as it was
DownRefusedEmptyBody(p) ==
    (DownLooked(p) /\ \E f \in disk : f.Version = GreatestVersion(ledger0[p])
                                     /\ f.DownSQL = EmptySQL) =>
        /\ result[p] = Errorf("no DOWN migration found for version", GreatestVersion(ledger0[p]))
        /\ Untouched(p)
        /\ GreatestVersion(ledger0[p]) \in LedgerVersions(ledger)

\* C28 as stated: every file a successful Create writes has an empty forward
\* and an empty backward body.
CreatedFileHasEmptyBodies ==
    [][\A p \in Procs, name \in CreatedLabels :
          (Create(p, name) /\ result'[p] = Nil) => WroteEmptyBodies(p, name)]_vars

\* (lemma) the file a successful Create writes for a label that holds
\* neither token has an empty forward and an empty backward body; an Up
\* submits an empty forward body to the store like any other and, when that
\* succeeds, records the version; a Down on a version whose file has an empty
\* backward body returns "no DOWN migration found" and the ledger keeps the
\* entry.
UneditedFileAppliesAndStays ==
    /\ [][\A p \in Procs, name \in CreatedLabels :
            (Create(p, name) /\ result'[p] = Nil /\ ~HasToken(name)) =>
                WroteEmptyBodies(p, name)]_vars
    /\ [](\A p \in Procs : UpAppliedEmptyBodies(p) /\ DownRefusedEmptyBody(p))

\* C28 witness: a Down has refused the version that the Up before it recorded
\* after executing the empty forward body of its file
DownRefusedCreatedFile ==
    \E p \in Procs :
        /\ DownLooked(p) /\ prev[p].op = "Up" /\ prev[p].diskSame
        /\ result[p].err = "no DOWN migration found for version"
        /\ result[p].version \in prev[p].recorded
        /\ \E f \in disk : /\ f.Version = result[p].version
                            /\ f.UpSQL = EmptySQL /\ f.DownSQL = EmptySQL
        /\ result[p].version \in LedgerVersions(ledger)

\* ------------------------------------------------------------------ rolling back everything
\* a store call or the reading of the directory has failed in a Down
StepFailed ==
    \E p \in Procs :
        /\ op[p] = "Down" /\ pc[p] = "idle"
        /\ result[p].err \in {"failed to get applied migrations", "failed to load migration files",
                              "failed to execute rollback for", "failed to remove migration record"}

\* every ledger entry has, among the discovered files, one of its version with
\* a non-empty backward body
SomeDefinitionHasDown ==
    \A v \in LedgerVersions(ledger) : \E f \in disk : f.Version = v /\ f.DownSQL # EmptySQL

\* of every ledger entry, the first discovered file of its version has a
\* non-empty backward body
FirstDefinitionHasDown ==
    \A v \in LedgerVersions(ledger) :
        /\ FindFile(loadMigrationFiles(disk), v) # NoFile
        /\ FindFile(loadMigrationFiles(disk), v).DownSQL # EmptySQL

\* a Down that found entries and returned success has removed the entry of the
\* greatest version and no other
DownRemovedGreatest(p) ==
    (op[p] = "Down" /\ pc[p] = "idle" /\ result[p] = Nil /\ ledger0[p] # <<>>) =>
        /\ Len(ledger) = Len(ledger0[p]) - 1
        /\ LedgerVersions(ledger) = LedgerVersions(ledger0[p]) \ {GreatestVersion(ledger0[p])}

\* of two successful Down invocations in a row the second has removed a
\* version below the one the first removed
DownsDescend(p) ==
    (/\ op[p] = "Down" /\ pc[p] = "idle" /\ result[p] = Nil /\ ledger0[p] # <<>>
     /\ prev[p].op = "Down" /\ prev[p].result = Nil.err
     /\ prev[p].last.call = "RemoveMigration") =>
        StrLess(Last(calls[p]).Version, prev[p].last.Version)

\* a Down that read an empty ledger has returned success, with no store call,
\* and has printed that there is nothing to roll back
DownOnEmptyIsNoOp(p) ==
    (/\ op[p] = "Down" /\ pc[p] = "idle" /\ ledger0[p] = <<>>
     /\ result[p].err # "failed to get applied migrations") =>
        /\ result[p] = Nil
        /\ Untouched(p)
        /\ stdout[p] = <<Line("No migrations to rollback", <<>>, <<>>)>>

\* a Down that found entries, each with some discovered definition that has a
\* non-empty backward body, and had no step fail, has removed one entry
DownRemovedOne(p) ==
    (/\ op[p] = "Down" /\ pc[p] = "idle" /\ ledger0[p] # <<>> /\ ~StepFailed
     /\ \A v \in LedgerVersions(ledger0[p]) :
            \E f \in disk : f.Version = v /\ f.DownSQL # EmptySQL) =>
        Len(ledger) = Len(ledger0[p]) - 1

\* C29 as stated: if every ledger entry has a discovered definition with a
\* non-empty backward body and no store step fails, repeated Down invocations
\* eventually empty the ledger, each invocation removing one entry.
DownsEmptyTheLedger ==
    /\ [](\A p \in Procs : DownRemovedOne(p))
    /\ SomeDefinitionHasDown => <>(StepFailed \/ ledger = <<>>)

\* C29 amended: if of every ledger entry the first discovered definition of its
\* version has a non-empty backward body and no store step and no reading of
\* the directory fails, repeated Down invocations eventually empty the ledger;
\* each successful invocation removes one entry, that of the greatest version,
\* so the versions removed descend; and a Down on the empty ledger is a
\* successful no-op.
DownsOfFirstDefinitionsEmptyTheLedger ==
    /\ FirstDefinitionHasDown => <>(StepFailed \/ ledger = <<>>)
    /\ [](\A p \in Procs : DownRemovedGreatest(p) /\ DownsDescend(p) /\ DownOnEmptyIsNoOp(p))

\* C29 witness: two Down invocations in a row have emptied a ledger of two
\* entries
TwoDownsEmptiedLedger ==
    \E p \in Procs :
        /\ op[p] = "Down" /\ pc[p] = "idle" /\ result[p] = Nil
        /\ Len(ledger0[p]) = 1 /\ ledger = <<>>
        /\ prev[p].op = "Down" /\ prev[p].result = Nil.err
        /\ Cardinality(prev[p].versions0) = 2

====
